---- MODULE Spec2Model ----
(***************************************************************************)
(* Model of AgentMemory (skills/agent-memory/src/memory.py): the facts,    *)
(* lessons and entities tables, the facts_fts full-text index, and the     *)
(* public operations that read and write them.                             *)
(*                                                                         *)
(* Storage is SQLite.  facts has a TEXT primary key, so every row also     *)
(* carries SQLite's implicit integer rowid (max(rowid)+1 on insert);       *)
(* facts_fts is an FTS5 table holding its own copy of content and tags,    *)
(* keyed by the rowid given at insert.                                     *)
(*                                                                         *)
(* Every call opens its own connection and commits before it returns, so   *)
(* a call is one step; supersede, which commits twice, is also given as    *)
(* two steps (SpecSupersede).  A failed statement raises out of the call    *)
(* before conn.commit(), so nothing of that call is persisted.             *)
(*                                                                         *)
(* Time is counted in ticks.  A call is shorter than a tick: all clock      *)
(* reads of one call give the same value, and successive calls may read    *)
(* the same value too.                                                     *)
(***************************************************************************)
EXTENDS Integers, Sequences, FiniteSets, TLC

\* ---------------------------------------------------------------- bounds
MaxTicks    == 3    \* the clock advances at most this many ticks
TicksPerDay == 2    \* clock resolution: sub-unit ticks per whole time unit
MaxDays     == 1    \* largest days / expires_in_days argument
MaxLimit    == 2    \* largest limit argument
MaxCalls    == 3    \* calls made on one store

\* ---------------------------------------------------------------- inputs
BadQuery    == {"?"}                      \* a query FTS5 cannot parse

\* An optional argument is the empty set (not given) or a singleton.
Opt(S)      == {{}} \cup {{x} : x \in S}
Some(o)     == CHOOSE x \in o : TRUE

NULL        == <<>>                       \* SQL NULL / Python None in a column

\* ------------------------------------------------------------- variables
VARIABLES
    clock,      \* datetime.utcnow(), in ticks
    facts,      \* facts table: rowid -> row
    facts_fts,  \* facts_fts index: rowid -> [content, tags]
    lessons,    \* lessons table: sequence of rows in insertion order
    entities,   \* entities table: sequence of rows in insertion order
    sup,        \* calls in flight: between the two commits of supersede,
                \* or between the SELECT and the write of an entity call
    calls,      \* number of calls made so far
    ret         \* the last completed call: operation, arguments, result

vars == <<clock, facts, facts_fts, lessons, entities, sup, calls, ret>>

\* ------------------------------------------------------------ time, text
Clock0 == MaxDays * TicksPerDay           \* clock value at construction

\* datetime.isoformat(): a fixed-width 'YYYY-MM-DDTHH:MM:SS' field followed
\* by '.ffffff' only when the microsecond part is not zero.  The whole part
\* of t models the fixed-width field, the remainder the optional suffix.
IsoFormat(t) ==
    IF t % TicksPerDay = 0 THEN <<t \div TicksPerDay>>
                           ELSE <<t \div TicksPerDay, t % TicksPerDay>>

\* timedelta(days=d) in ticks
TimeDelta(d) == d * TicksPerDay

\* SQLite's TEXT comparison a < b on two isoformat strings
TextLess(a, b) ==
    \/ a[1] < b[1]
    \/ /\ a[1] = b[1]
       /\ \/ Len(a) < Len(b)
          \/ Len(a) = 2 /\ Len(b) = 2 /\ a[2] < b[2]

\* the instant an isoformat string denotes, in ticks
IsoParse(s) == s[1] * TicksPerDay + (IF Len(s) = 2 THEN s[2] ELSE 0)

\* json.dumps / json.loads of a list or dict
JsonDumps(v) == <<"json", v>>
JsonLoads(s) == IF s = NULL THEN <<>> ELSE s[2]

SeqRange(s) == {s[i] : i \in 1..Len(s)}

\* _generate_id: sha256(content + utcnow().isoformat())[:12]; the digest is
\* modelled as the pair it is computed from (no two inputs share a digest)
GenerateId(content, t) == <<content, IsoFormat(t)>>

\* --------------------------------------------------------------- storage
Rowids == DOMAIN facts

FactIds == {facts[r].id : r \in Rowids}

RowidOf(id) == CHOOSE r \in Rowids : facts[r].id = id

\* rowid SQLite gives the next row of a table without AUTOINCREMENT
MaxOf(S) == CHOOSE m \in S : \A x \in S : x <= m
NewRowid == IF Rowids = {} THEN 1 ELSE MaxOf(Rowids) + 1

\* f with row r added / removed
Put(f, r, v)  == [x \in (DOMAIN f) \cup {r} |-> IF x = r THEN v ELSE f[x]]
Drop(f, R)    == [x \in (DOMAIN f) \ R |-> f[x]]

\* a call starts
Call == calls < MaxCalls /\ calls' = calls + 1

Init ==
    /\ clock = Clock0
    /\ facts = <<>>
    /\ facts_fts = <<>>
    /\ lessons = <<>>
    /\ entities = <<>>
    /\ sup = {}
    /\ calls = 0
    /\ ret = [op |-> "init"]

\* ---------------------------------------------------------------- facts
\* remember that leaves source to the column default
NewFactDefaultSource(id, content, tags, source, confidence, now, expires_at) ==
    [id |-> id, content |-> content, tags |-> JsonDumps(tags),
     source |-> "conversation", confidence |-> confidence,
     created_at |-> IsoFormat(now), last_accessed |-> IsoFormat(now),
     access_count |-> 1, expires_at |-> expires_at, superseded_by |-> NULL]

\* a row that starts with access_count 0, the insert itself not counted
NewFactZeroAccess(id, content, tags, source, confidence, now, expires_at) ==
    [id |-> id, content |-> content, tags |-> JsonDumps(tags),
     source |-> source, confidence |-> confidence,
     created_at |-> IsoFormat(now), last_accessed |-> IsoFormat(now),
     access_count |-> 0, expires_at |-> expires_at, superseded_by |-> NULL]

\* The row remember inserts.
NewFact(id, content, tags, source, confidence, now, expires_at) ==
    [id |-> id, content |-> content, tags |-> JsonDumps(tags),
     source |-> source, confidence |-> confidence,
     created_at |-> IsoFormat(now), last_accessed |-> IsoFormat(now),
     access_count |-> 1, expires_at |-> expires_at, superseded_by |-> NULL]

\* expires_at as remember computes it; tExp is the clock it reads then
ExpiresAt(expires_in_days, tExp) ==
    IF expires_in_days # {} /\ Some(expires_in_days) # 0
    THEN IsoFormat(tExp + TimeDelta(Some(expires_in_days)))
    ELSE NULL

\* The two INSERTs of remember succeed: the id is a fresh primary key and
\* the index has no entry under the rowid the new row gets.
RememberOk(id) == id \notin FactIds /\ NewRowid \notin DOMAIN facts_fts

\* remember with the row insert committed on its own: the row stays when
\* the index insert then fails
RememberTxnRowKept(content, tags, source, confidence, expires_in_days) ==
    /\ Call
    /\ LET tNow == clock
            tExp == clock
            id   == GenerateId(content, clock)
            tl   == IF tags = {} \/ Some(tags) = <<>> THEN <<>> ELSE Some(tags)
            row  == NewFact(id, content, tl, source, confidence, tNow,
                            ExpiresAt(expires_in_days, tExp))
            call == [op |-> "remember", content |-> content, tags |-> tags,
                     source |-> source, confidence |-> confidence,
                     expires_in_days |-> expires_in_days, now |-> tExp]
        IN  /\ UNCHANGED clock
            /\ IF RememberOk(id)
               THEN /\ facts' = Put(facts, NewRowid, row)
                    /\ facts_fts' = Put(facts_fts, NewRowid,
                                        [content |-> row.content, tags |-> row.tags])
                    /\ ret' = call @@ [err |-> FALSE, id |-> id]
               ELSE /\ facts' = IF id \notin FactIds
                                THEN Put(facts, NewRowid, row) ELSE facts
                    /\ UNCHANGED facts_fts
                    /\ ret' = call @@ [err |-> TRUE, id |-> NULL]

\* remember(content, tags, source, confidence, expires_in_days): what the
\* call does to the clock, the facts table and the index, and what it returns
RememberTxn(content, tags, source, confidence, expires_in_days) ==
    /\ Call
    /\ LET tNow == clock
            tExp == clock
            id   == GenerateId(content, clock)
            tl   == IF tags = {} \/ Some(tags) = <<>> THEN <<>> ELSE Some(tags)
            row  == NewFact(id, content, tl, source, confidence, tNow,
                            ExpiresAt(expires_in_days, tExp))
            call == [op |-> "remember", content |-> content, tags |-> tags,
                     source |-> source, confidence |-> confidence,
                     expires_in_days |-> expires_in_days, now |-> tExp]
        IN  /\ UNCHANGED clock
            /\ IF RememberOk(id)
               THEN /\ facts' = Put(facts, NewRowid, row)
                    /\ facts_fts' = Put(facts_fts, NewRowid,
                                        [content |-> row.content, tags |-> row.tags])
                    /\ ret' = call @@ [err |-> FALSE, id |-> id]
               ELSE /\ UNCHANGED <<facts, facts_fts>>
                    /\ ret' = call @@ [err |-> TRUE, id |-> NULL]

Remember(content, tags, source, confidence, expires_in_days) ==
    /\ RememberTxn(content, tags, source, confidence, expires_in_days)
    /\ UNCHANGED <<lessons, entities, sup>>

\* forget that also deletes the facts the given one superseded
ForgetCascade(fact_id) ==
    /\ Call
    /\ facts' = Drop(facts, {r \in Rowids : \/ facts[r].id = fact_id
                                            \/ facts[r].superseded_by = fact_id})
    /\ ret' = [op |-> "forget", fact_id |-> fact_id, err |-> FALSE]
    /\ UNCHANGED <<clock, facts_fts, lessons, entities, sup>>

\* forget(fact_id)
Forget(fact_id) ==
    /\ Call
    /\ facts' = Drop(facts, {r \in Rowids : facts[r].id = fact_id})
    /\ ret' = [op |-> "forget", fact_id |-> fact_id, err |-> FALSE]
    /\ UNCHANGED <<clock, facts_fts, lessons, entities, sup>>

\* the clock advances between calls
Tick ==
    /\ clock < Clock0 + MaxTicks
    /\ clock' = clock + 1
    /\ UNCHANGED <<facts, facts_fts, lessons, entities, sup, calls, ret>>

\* Fact object built from a row (get_fact, recall, list_facts)
FactOf(row) == [row EXCEPT !.tags = JsonLoads(row.tags)]

\* get_fact(fact_id): absent ({}) or the fact
GetFactResult(fact_id) ==
    IF fact_id \in FactIds THEN {FactOf(facts[RowidOf(fact_id)])} ELSE {}

GetFact(fact_id) ==
    /\ Call
    /\ ret' = [op |-> "get_fact", fact_id |-> fact_id, err |-> FALSE,
               fact |-> GetFactResult(fact_id)]
    /\ UNCHANGED <<clock, facts, facts_fts, lessons, entities, sup>>

\* tokens FTS5 indexes for an entry: those of content and of the tags text
EntryTokens(e) == {e.content} \cup SeqRange(JsonLoads(e.tags))

\* facts_fts MATCH query: every term of the query occurs in the entry
Match(query, e) == query \subseteq EntryTokens(e)

\* recall that keeps a fact expiring at the very instant of the query
RecallRowsInclusive(query, min_confidence, now) ==
    {r \in Rowids \cap DOMAIN facts_fts :
        /\ Match(query, facts_fts[r])
        /\ facts[r].confidence >= min_confidence
        /\ \/ facts[r].expires_at = NULL
           \/ ~TextLess(facts[r].expires_at, IsoFormat(now))
        /\ facts[r].superseded_by = NULL}

\* rows the SELECT of recall yields before LIMIT
RecallRows(query, min_confidence, now) ==
    {r \in Rowids \cap DOMAIN facts_fts :
        /\ Match(query, facts_fts[r])
        /\ facts[r].confidence >= min_confidence
        /\ \/ facts[r].expires_at = NULL
           \/ TextLess(IsoFormat(now), facts[r].expires_at)
        /\ facts[r].superseded_by = NULL}

\* LIMIT n keeps the n best-ranked rows (all rows when n is negative); the
\* rank is FTS5's bm25 score, left open here: any n of the rows
Limited(rows, n) ==
    IF n < 0 \/ n >= Cardinality(rows) THEN {rows}
    ELSE {S \in SUBSET rows : Cardinality(S) = n}

\* the tag filter of recall: every requested tag is on the fact
HasAllTags(row, tags) ==
    \/ tags = {}
    \/ Some(tags) = <<>>
    \/ \A t \in SeqRange(Some(tags)) : t \in SeqRange(JsonLoads(row.tags))

\* the WHERE clause of list_facts without the superseded_by test
ListRowsNoFilter(include_superseded) == Rowids

\* SELECT * FROM facts WHERE 1=1 [AND superseded_by IS NULL]
ListRows(include_superseded) ==
    {r \in Rowids : include_superseded \/ facts[r].superseded_by = NULL}

\* ORDER BY created_at DESC over the rows in R: the sequences holding each
\* row once, no row before one with a greater created_at text; rows with
\* equal created_at come in any order
OrderByCreatedDesc(R) ==
    {s \in [1..Cardinality(R) -> R] :
        /\ \A i, j \in 1..Cardinality(R) : s[i] = s[j] => i = j
        /\ \A i, j \in 1..Cardinality(R) :
             i < j => ~TextLess(facts[s[i]].created_at, facts[s[j]].created_at)}

\* LIMIT n on an ordered result: its first n rows, all when n is negative
SqlLimit(s, n) == IF n < 0 \/ n >= Len(s) THEN s ELSE SubSeq(s, 1, n)

\* the tag test of list_facts: no tags asked for, or one of them on the fact
HasAnyTag(row, tags) ==
    \/ tags = {}
    \/ Some(tags) = <<>>
    \/ \E t \in SeqRange(Some(tags)) : t \in SeqRange(JsonLoads(row.tags))

\* the rows a fetched list keeps after the tag test, in the fetched order
RECURSIVE KeepTagged(_, _)
KeepTagged(s, tags) ==
    IF s = <<>> THEN <<>>
    ELSE (IF HasAnyTag(facts[Head(s)], tags) THEN <<FactOf(facts[Head(s)])>>
                                             ELSE <<>>)
         \o KeepTagged(Tail(s), tags)

\* list_facts that counts as an access of the facts it returns
ListFactsTouching(tags, limit, include_superseded) ==
    /\ Call
    /\ \E s \in OrderByCreatedDesc(ListRows(include_superseded)) :
         LET got == {r \in SeqRange(SqlLimit(s, limit)) : HasAnyTag(facts[r], tags)}
         IN  /\ ret' = [op |-> "list_facts", tags |-> tags, limit |-> limit,
                        include_superseded |-> include_superseded, err |-> FALSE,
                        facts |-> KeepTagged(SqlLimit(s, limit), tags)]
             /\ facts' = [r \in Rowids |->
                            IF r \in got
                            THEN [facts[r] EXCEPT !.access_count = @ + 1]
                            ELSE facts[r]]
    /\ UNCHANGED <<clock, facts_fts, lessons, entities, sup>>

\* list_facts(tags, limit, include_superseded): the LIMIT is part of the
\* query, the tag test runs afterwards on the fetched rows
ListFacts(tags, limit, include_superseded) ==
    /\ Call
    /\ \E s \in OrderByCreatedDesc(ListRows(include_superseded)) :
         ret' = [op |-> "list_facts", tags |-> tags, limit |-> limit,
                 include_superseded |-> include_superseded, err |-> FALSE,
                 facts |-> KeepTagged(SqlLimit(s, limit), tags)]
    /\ UNCHANGED <<clock, facts, facts_fts, lessons, entities, sup>>

\* recall that bumps every fetched row, the tag filter applied to the
\* returned list only
RecallTouchFetched(query, limit, tags, min_confidence) ==
    LET call == [op |-> "recall", query |-> query, limit |-> limit,
                 tags |-> tags, min_confidence |-> min_confidence,
                 now |-> clock]
    IN
    /\ Call
    /\ IF query = BadQuery
       THEN /\ ret' = call @@ [err |-> TRUE, facts |-> {}]
            /\ UNCHANGED facts
       ELSE \E S \in Limited(RecallRows(query, min_confidence, clock), limit) :
            LET hit == {r \in S : HasAllTags(facts[r], tags)}
            IN  /\ facts' = [r \in Rowids |->
                        IF r \in S
                        THEN [facts[r] EXCEPT
                                !.last_accessed = IsoFormat(clock),
                                !.access_count = @ + 1]
                        ELSE facts[r]]
                /\ ret' = call @@ [err |-> FALSE,
                                   facts |-> {FactOf(facts[r]) : r \in hit}]
    /\ UNCHANGED <<clock, facts_fts, lessons, entities, sup>>

\* recall(query, limit, tags, min_confidence)
Recall(query, limit, tags, min_confidence) ==
    LET call == [op |-> "recall", query |-> query, limit |-> limit,
                 tags |-> tags, min_confidence |-> min_confidence,
                 now |-> clock]
    IN
    /\ Call
    /\ IF query = BadQuery
       THEN /\ ret' = call @@ [err |-> TRUE, facts |-> {}]
            /\ UNCHANGED facts
       ELSE \E S \in Limited(RecallRows(query, min_confidence, clock), limit) :
            LET hit == {r \in S : HasAllTags(facts[r], tags)}
            IN  /\ facts' = [r \in Rowids |->
                        IF r \in hit
                        THEN [facts[r] EXCEPT
                                !.last_accessed = IsoFormat(clock),
                                !.access_count = @ + 1]
                        ELSE facts[r]]
                /\ ret' = call @@ [err |-> FALSE,
                                   facts |-> {FactOf(facts[r]) : r \in hit}]
    /\ UNCHANGED <<clock, facts_fts, lessons, entities, sup>>

\* the UPDATE with its two parameters in the wrong order
MarkSupersededSwapped(f, old_fact_id, new_id) ==
    [r \in DOMAIN f |->
        IF f[r].id = new_id THEN [f[r] EXCEPT !.superseded_by = old_fact_id]
                            ELSE f[r]]

\* UPDATE facts SET superseded_by = new_id WHERE id = old_fact_id
MarkSuperseded(f, old_fact_id, new_id) ==
    [r \in DOMAIN f |->
        IF f[r].id = old_fact_id THEN [f[r] EXCEPT !.superseded_by = new_id]
                                 ELSE f[r]]

\* supersede that compacts chains: every fact that pointed at the old fact
\* is pointed at the new one as well
SupersedeCompacting(old_fact_id, new_content, tags, source, confidence, expires_in_days) ==
    /\ Call
    /\ LET tNow == clock
            tExp == clock
            id   == GenerateId(new_content, clock)
            tl   == IF tags = {} \/ Some(tags) = <<>> THEN <<>> ELSE Some(tags)
            row  == NewFact(id, new_content, tl, source, confidence, tNow,
                            ExpiresAt(expires_in_days, tExp))
            call == [op |-> "supersede", old_fact_id |-> old_fact_id,
                     new_content |-> new_content,
                     existed |-> old_fact_id \in FactIds]
            f1   == Put(facts, NewRowid, row)
        IN  /\ UNCHANGED clock
            /\ IF RememberOk(id)
               THEN /\ facts' = [r \in DOMAIN f1 |->
                          IF f1[r].id = old_fact_id
                             \/ f1[r].superseded_by = old_fact_id
                          THEN [f1[r] EXCEPT !.superseded_by = id]
                          ELSE f1[r]]
                    /\ facts_fts' = Put(facts_fts, NewRowid,
                                        [content |-> row.content, tags |-> row.tags])
                    /\ ret' = call @@ [err |-> FALSE, id |-> id]
               ELSE /\ UNCHANGED <<facts, facts_fts>>
                    /\ ret' = call @@ [err |-> TRUE, id |-> NULL]
    /\ UNCHANGED <<lessons, entities, sup>>

\* supersede(old_fact_id, new_content, **kwargs), run by a single caller
Supersede(old_fact_id, new_content, tags, source, confidence, expires_in_days) ==
    /\ Call
    /\ LET tNow == clock
            tExp == clock
            id   == GenerateId(new_content, clock)
            tl   == IF tags = {} \/ Some(tags) = <<>> THEN <<>> ELSE Some(tags)
            row  == NewFact(id, new_content, tl, source, confidence, tNow,
                            ExpiresAt(expires_in_days, tExp))
            call == [op |-> "supersede", old_fact_id |-> old_fact_id,
                     new_content |-> new_content,
                     existed |-> old_fact_id \in FactIds]
        IN  /\ UNCHANGED clock
            /\ IF RememberOk(id)
               THEN /\ facts' = MarkSuperseded(Put(facts, NewRowid, row),
                                               old_fact_id, id)
                    /\ facts_fts' = Put(facts_fts, NewRowid,
                                        [content |-> row.content, tags |-> row.tags])
                    /\ ret' = call @@ [err |-> FALSE, id |-> id]
               ELSE /\ UNCHANGED <<facts, facts_fts>>
                    /\ ret' = call @@ [err |-> TRUE, id |-> NULL]
    /\ UNCHANGED <<lessons, entities, sup>>

\* forget_stale without the exemption of superseded facts
StaleRowsAnyFact(days, min_access_count, now) ==
    {r \in Rowids :
        /\ TextLess(facts[r].last_accessed, IsoFormat(now - TimeDelta(days)))
        /\ facts[r].access_count <= min_access_count}

\* rows the DELETE of forget_stale removes
StaleRows(days, min_access_count, now) ==
    {r \in Rowids :
        /\ TextLess(facts[r].last_accessed, IsoFormat(now - TimeDelta(days)))
        /\ facts[r].access_count <= min_access_count
        /\ facts[r].superseded_by = NULL}

\* forget_stale comparing with <=: a fact last accessed at the cutoff
\* itself is swept too
ForgetStaleInclusive(days, min_access_count) ==
    LET gone == {r \in Rowids :
                   /\ ~TextLess(IsoFormat(clock - TimeDelta(days)),
                                facts[r].last_accessed)
                   /\ facts[r].access_count <= min_access_count
                   /\ facts[r].superseded_by = NULL}
    IN  /\ Call
        /\ facts' = Drop(facts, gone)
        /\ ret' = [op |-> "forget_stale", days |-> days,
                   min_access_count |-> min_access_count, now |-> clock,
                   err |-> FALSE, deleted |-> Cardinality(gone)]
        /\ UNCHANGED <<clock, facts_fts, lessons, entities, sup>>

\* forget_stale(days, min_access_count)
ForgetStale(days, min_access_count) ==
    LET gone == StaleRows(days, min_access_count, clock)
    IN  /\ Call
        /\ facts' = Drop(facts, gone)
        /\ ret' = [op |-> "forget_stale", days |-> days,
                   min_access_count |-> min_access_count, now |-> clock,
                   err |-> FALSE, deleted |-> Cardinality(gone)]
        /\ UNCHANGED <<clock, facts_fts, lessons, entities, sup>>

\* supersede as other callers and a crash see it: the remember commits
\* first, the UPDATE of the old fact commits in a second transaction
SupersedeBegin(old_fact_id, new_content, tags, source, confidence, days) ==
    /\ RememberTxn(new_content, tags, source, confidence, days)
    /\ sup' = IF ret'.err THEN sup
              ELSE sup \cup {[old |-> old_fact_id, new |-> ret'.id]}
    /\ UNCHANGED <<lessons, entities>>

\* the second commit of supersede lost
SupersedeFinishNoMark(p) ==
    /\ sup' = sup \ {p}
    /\ ret' = [op |-> "supersede", old_fact_id |-> p.old, id |-> p.new,
               err |-> FALSE]
    /\ UNCHANGED <<clock, facts, facts_fts, lessons, entities, calls>>

SupersedeFinish(p) ==
    /\ facts' = MarkSuperseded(facts, p.old, p.new)
    /\ sup' = sup \ {p}
    /\ ret' = [op |-> "supersede", old_fact_id |-> p.old, id |-> p.new,
               err |-> FALSE]
    /\ UNCHANGED <<clock, facts_fts, lessons, entities, calls>>

\* the process dies between the two commits of supersede
Crash(p) ==
    /\ sup' = sup \ {p}
    /\ UNCHANGED <<clock, facts, facts_fts, lessons, entities, calls, ret>>

\* -------------------------------------------------------------- lessons
LessonIds == {lessons[i].id : i \in 1..Len(lessons)}

\* learn(action, context, outcome, insight)
Learn(action, context, outcome, insight) ==
    /\ Call
    /\ LET tNow == clock
            id   == GenerateId(<<action, context>>, clock)
            row  == [id |-> id, action |-> action, context |-> context,
                     outcome |-> outcome, insight |-> insight,
                     created_at |-> IsoFormat(tNow), applied_count |-> 0]
            call == [op |-> "learn", action |-> action, context |-> context,
                     outcome |-> outcome, insight |-> insight]
        IN  /\ UNCHANGED clock
            /\ IF id \notin LessonIds
               THEN /\ lessons' = Append(lessons, row)
                    /\ ret' = call @@ [err |-> FALSE, id |-> id]
               ELSE /\ UNCHANGED lessons
                    /\ ret' = call @@ [err |-> TRUE, id |-> NULL]
    /\ UNCHANGED <<facts, facts_fts, entities, sup>>

\* ASCII case folding of LIKE, on the letters the callers use (texts that
\* LIKE looks into are sequences of one-character strings)
Fold == ("D" :> "d") @@ ("E" :> "e") @@ ("P" :> "p") @@ ("T" :> "t")

Lower(c) == IF c \in DOMAIN Fold THEN Fold[c] ELSE c

\* text LIKE pattern: % stands for any run of characters, _ for any one
\* character, every other character for itself in either case
RECURSIVE Like(_, _)
Like(pattern, text) ==
    IF pattern = <<>> THEN text = <<>>
    ELSE IF Head(pattern) = "%"
    THEN \/ Like(Tail(pattern), text)
         \/ text # <<>> /\ Like(pattern, Tail(text))
    ELSE /\ text # <<>>
         /\ Head(pattern) = "_" \/ Lower(Head(pattern)) = Lower(Head(text))
         /\ Like(Tail(pattern), Tail(text))

\* the WHERE clause of get_lessons: a filter is added for an argument that
\* is neither None nor empty
LessonRows(context, outcome) ==
    {i \in 1..Len(lessons) :
        /\ \/ context = {}
           \/ Some(context) = <<>>
           \/ Like(<<"%">> \o Some(context) \o <<"%">>, lessons[i].context)
        /\ \/ outcome = {}
           \/ Some(outcome) = ""
           \/ lessons[i].outcome = Some(outcome)}

\* ORDER BY created_at DESC over the lessons at the positions in R
LessonsByCreatedDesc(R) ==
    {s \in [1..Cardinality(R) -> R] :
        /\ \A i, j \in 1..Cardinality(R) : s[i] = s[j] => i = j
        /\ \A i, j \in 1..Cardinality(R) :
             i < j => ~TextLess(lessons[s[i]].created_at,
                                lessons[s[j]].created_at)}

\* get_lessons(context, outcome, limit)
GetLessons(context, outcome, limit) ==
    /\ Call
    /\ \E s \in LessonsByCreatedDesc(LessonRows(context, outcome)) :
         LET got == SqlLimit(s, limit)
         IN  ret' = [op |-> "get_lessons", context |-> context,
                     outcome |-> outcome, limit |-> limit, err |-> FALSE,
                     lessons |-> [i \in 1..Len(got) |-> lessons[got[i]]]]
    /\ UNCHANGED <<clock, facts, facts_fts, lessons, entities, sup>>

\* the UPDATE of apply_lesson without its WHERE clause
ApplyLessonAll(lesson_id) ==
    /\ Call
    /\ lessons' = [i \in 1..Len(lessons) |->
            [lessons[i] EXCEPT !.applied_count = @ + 1]]
    /\ ret' = [op |-> "apply_lesson", lesson_id |-> lesson_id, err |-> FALSE]
    /\ UNCHANGED <<clock, facts, facts_fts, entities, sup>>

\* apply_lesson(lesson_id)
ApplyLesson(lesson_id) ==
    /\ Call
    /\ lessons' = [i \in 1..Len(lessons) |->
            IF lessons[i].id = lesson_id
            THEN [lessons[i] EXCEPT !.applied_count = @ + 1]
            ELSE lessons[i]]
    /\ ret' = [op |-> "apply_lesson", lesson_id |-> lesson_id, err |-> FALSE]
    /\ UNCHANGED <<clock, facts, facts_fts, entities, sup>>

\* ------------------------------------------------------------- entities
EntityIds == {entities[i].id : i \in 1..Len(entities)}

MinOf(S) == CHOOSE m \in S : \A x \in S : m <= x

\* cursor.fetchone() of a SELECT on entities: the first row in storage
\* order among those at the positions in hits, 0 when there is none
FetchOne(hits) == IF hits = {} THEN 0 ELSE MinOf(hits)

\* the existence check of track_entity looking at the name only
EntityByKeyNameOnly(name, entity_type) ==
    FetchOne({i \in 1..Len(entities) : entities[i].name = name})

\* SELECT ... FROM entities WHERE name = ? AND entity_type = ?
EntityByKey(name, entity_type) ==
    FetchOne({i \in 1..Len(entities) :
                entities[i].name = name /\ entities[i].entity_type = entity_type})

\* SELECT ... FROM entities WHERE name = ?
EntityByName(name) ==
    FetchOne({i \in 1..Len(entities) : entities[i].name = name})

EmptyDict == [k \in {} |-> 0]

\* Entity object built from a row
EntityOf(row) == [row EXCEPT !.attributes = JsonLoads(row.attributes),
                             !.fact_ids = JsonLoads(row.fact_ids)]

\* get_entity(name, entity_type) with the type given
GetEntityResult(es, name, entity_type) ==
    LET hits == {i \in 1..Len(es) :
                   es[i].name = name /\ es[i].entity_type = entity_type}
    IN  IF hits = {} THEN {} ELSE {EntityOf(es[MinOf(hits)])}

\* track_entity written as INSERT OR REPLACE: the row of an existing pair
\* is written anew, first_seen and fact_ids included
TrackEntityReplaceRow(name, entity_type, attributes) ==
    /\ Call
    /\ LET tNow == clock
            id    == GenerateId(<<entity_type, name>>, clock)
            attrs == IF attributes = {} \/ Some(attributes) = EmptyDict
                     THEN EmptyDict ELSE Some(attributes)
            i     == EntityByKey(name, entity_type)
            row   == [id |-> id, name |-> name, entity_type |-> entity_type,
                      attributes |-> JsonDumps(attrs),
                      first_seen |-> IsoFormat(tNow),
                      last_updated |-> IsoFormat(tNow),
                      fact_ids |-> JsonDumps(<<>>)]
            call  == [op |-> "track_entity", name |-> name,
                      entity_type |-> entity_type, attributes |-> attributes]
        IN  /\ UNCHANGED clock
            /\ IF i # 0
               THEN /\ entities' = [entities EXCEPT
                                      ![i] = [row EXCEPT !.id = entities[i].id]]
                    /\ ret' = call @@ [err |-> FALSE, id |-> entities[i].id]
               ELSE IF id \notin EntityIds
               THEN /\ entities' = Append(entities, row)
                    /\ ret' = call @@ [err |-> FALSE, id |-> id]
               ELSE /\ UNCHANGED entities
                    /\ ret' = call @@ [err |-> TRUE, id |-> NULL]
    /\ UNCHANGED <<facts, facts_fts, lessons, sup>>

\* track_entity(name, entity_type, attributes)
TrackEntity(name, entity_type, attributes) ==
    /\ Call
    /\ LET tNow == clock
            id    == GenerateId(<<entity_type, name>>, clock)
            attrs == IF attributes = {} \/ Some(attributes) = EmptyDict
                     THEN EmptyDict ELSE Some(attributes)
            i     == EntityByKey(name, entity_type)
            row   == [id |-> id, name |-> name, entity_type |-> entity_type,
                      attributes |-> JsonDumps(attrs),
                      first_seen |-> IsoFormat(tNow),
                      last_updated |-> IsoFormat(tNow),
                      fact_ids |-> JsonDumps(<<>>)]
            call  == [op |-> "track_entity", name |-> name,
                      entity_type |-> entity_type, attributes |-> attributes]
        IN  /\ UNCHANGED clock
            /\ IF i # 0
               THEN /\ entities' = [entities EXCEPT
                                      ![i].attributes = JsonDumps(attrs),
                                      ![i].last_updated = IsoFormat(tNow)]
                    /\ ret' = call @@ [err |-> FALSE, id |-> entities[i].id]
               ELSE IF id \notin EntityIds
               THEN /\ entities' = Append(entities, row)
                    /\ ret' = call @@ [err |-> FALSE, id |-> id]
               ELSE /\ UNCHANGED entities
                    /\ ret' = call @@ [err |-> TRUE, id |-> NULL]
    /\ UNCHANGED <<facts, facts_fts, lessons, sup>>

\* a merge in which the stored value wins over the given one
DictUpdateKeepOld(a, b) ==
    [k \in (DOMAIN a) \cup (DOMAIN b) |-> IF k \in DOMAIN a THEN a[k] ELSE b[k]]

\* dict.update: a overridden by b
DictUpdate(a, b) ==
    [k \in (DOMAIN a) \cup (DOMAIN b) |-> IF k \in DOMAIN b THEN b[k] ELSE a[k]]

\* update_entity that creates the entity when the pair has no row
UpdateEntityUpsert(name, entity_type, attributes) ==
    LET i    == EntityByKey(name, entity_type)
        call == [op |-> "update_entity", name |-> name,
                 entity_type |-> entity_type, attributes |-> attributes,
                 err |-> FALSE]
        row  == [id |-> GenerateId(<<entity_type, name>>, clock),
                 name |-> name, entity_type |-> entity_type,
                 attributes |-> JsonDumps(attributes),
                 first_seen |-> IsoFormat(clock),
                 last_updated |-> IsoFormat(clock),
                 fact_ids |-> JsonDumps(<<>>)]
    IN  /\ Call
        /\ IF i = 0
           THEN entities' = Append(entities, row)
           ELSE entities' = [entities EXCEPT
                    ![i].attributes =
                        JsonDumps(DictUpdate(JsonLoads(@), attributes)),
                    ![i].last_updated = IsoFormat(clock)]
        /\ ret' = call @@
                     [entity |-> GetEntityResult(entities', name, entity_type)]
        /\ UNCHANGED <<clock, facts, facts_fts, lessons, sup>>

\* update_entity(name, entity_type, attributes)
UpdateEntity(name, entity_type, attributes) ==
    LET i    == EntityByKey(name, entity_type)
        call == [op |-> "update_entity", name |-> name,
                 entity_type |-> entity_type, attributes |-> attributes,
                 err |-> FALSE]
    IN  /\ Call
        /\ IF i = 0
           THEN /\ UNCHANGED <<clock, entities>>
                /\ ret' = call @@ [entity |-> {}]
           ELSE /\ entities' = [entities EXCEPT
                    ![i].attributes =
                        JsonDumps(DictUpdate(JsonLoads(@), attributes)),
                    ![i].last_updated = IsoFormat(clock)]
                /\ ret' = call @@
                     [entity |-> GetEntityResult(entities', name, entity_type)]
        /\ UNCHANGED <<clock, facts, facts_fts, lessons, sup>>

\* link_fact_to_entity without the membership test
LinkFactToEntityNoCheck(entity_name, fact_id) ==
    LET i == EntityByName(entity_name)
    IN  /\ Call
        /\ IF i # 0
           THEN entities' = [entities EXCEPT ![i].fact_ids =
                                JsonDumps(Append(JsonLoads(@), fact_id))]
           ELSE UNCHANGED entities
        /\ ret' = [op |-> "link_fact_to_entity", entity_name |-> entity_name,
                   fact_id |-> fact_id, err |-> FALSE]
        /\ UNCHANGED <<clock, facts, facts_fts, lessons, sup>>

\* link_fact_to_entity(entity_name, fact_id)
LinkFactToEntity(entity_name, fact_id) ==
    LET i == EntityByName(entity_name)
    IN  /\ Call
        /\ IF i # 0 /\ fact_id \notin SeqRange(JsonLoads(entities[i].fact_ids))
           THEN entities' = [entities EXCEPT ![i].fact_ids =
                                JsonDumps(Append(JsonLoads(@), fact_id))]
           ELSE UNCHANGED entities
        /\ ret' = [op |-> "link_fact_to_entity", entity_name |-> entity_name,
                   fact_id |-> fact_id, err |-> FALSE]
        /\ UNCHANGED <<clock, facts, facts_fts, lessons, sup>>

\* ------------------------------------------ entity calls, statement-wise
\* track_entity and link_fact_to_entity read with a SELECT and write with
\* a later UPDATE or INSERT; the connection holds no lock in between, so
\* statements of other callers may run there.  A call that has done its
\* SELECT waits in sup with what it read.

\* track_entity up to its SELECT: id and now are computed, the row of the
\* pair, if any, is read
TrackEntitySelect(name, entity_type, attributes) ==
    /\ calls + Cardinality(sup) < MaxCalls
    /\ LET i == EntityByKey(name, entity_type)
       IN  sup' = sup \cup
              {[op |-> "track_entity", name |-> name,
                entity_type |-> entity_type,
                attributes |-> IF attributes = {} \/ Some(attributes) = EmptyDict
                               THEN EmptyDict ELSE Some(attributes),
                id |-> GenerateId(<<entity_type, name>>, clock),
                now |-> IsoFormat(clock),
                existing |-> IF i = 0 THEN NULL ELSE entities[i].id]}
    /\ UNCHANGED <<clock, facts, facts_fts, lessons, entities, calls, ret>>

\* the rest of track_entity: UPDATE of the row it read, or INSERT when it
\* read none (the primary key rejects an id that is already stored)
TrackEntityWrite(p) ==
    LET row == [id |-> p.id, name |-> p.name, entity_type |-> p.entity_type,
                attributes |-> JsonDumps(p.attributes),
                first_seen |-> p.now, last_updated |-> p.now,
                fact_ids |-> JsonDumps(<<>>)]
        call == [op |-> "track_entity", name |-> p.name,
                 entity_type |-> p.entity_type]
    IN  /\ p.op = "track_entity"
        /\ Call
        /\ sup' = sup \ {p}
        /\ IF p.existing # NULL
           THEN /\ entities' = [i \in 1..Len(entities) |->
                       IF entities[i].id = p.existing
                       THEN [entities[i] EXCEPT
                               !.attributes = JsonDumps(p.attributes),
                               !.last_updated = p.now]
                       ELSE entities[i]]
                /\ ret' = call @@ [err |-> FALSE, id |-> p.existing]
           ELSE IF p.id \notin EntityIds
           THEN /\ entities' = Append(entities, row)
                /\ ret' = call @@ [err |-> FALSE, id |-> p.id]
           ELSE /\ UNCHANGED entities
                /\ ret' = call @@ [err |-> TRUE, id |-> NULL]
        /\ UNCHANGED <<clock, facts, facts_fts, lessons>>

\* link_fact_to_entity up to its SELECT: id and fact_ids of the first row
\* with the name are read
LinkFactSelect(entity_name, fact_id) ==
    /\ calls + Cardinality(sup) < MaxCalls
    /\ LET i == EntityByName(entity_name)
       IN  sup' = sup \cup
              {[op |-> "link_fact_to_entity", entity_name |-> entity_name,
                fact_id |-> fact_id,
                row |-> IF i = 0 THEN NULL ELSE entities[i].id,
                fact_ids |-> IF i = 0 THEN <<>>
                             ELSE JsonLoads(entities[i].fact_ids)]}
    /\ UNCHANGED <<clock, facts, facts_fts, lessons, entities, calls, ret>>

\* the rest of link_fact_to_entity: the list it read, extended, is written
\* back to the row it read
LinkFactWrite(p) ==
    /\ p.op = "link_fact_to_entity"
    /\ Call
    /\ sup' = sup \ {p}
    /\ IF p.row # NULL /\ p.fact_id \notin SeqRange(p.fact_ids)
       THEN entities' = [i \in 1..Len(entities) |->
                IF entities[i].id = p.row
                THEN [entities[i] EXCEPT
                        !.fact_ids = JsonDumps(Append(p.fact_ids, p.fact_id))]
                ELSE entities[i]]
       ELSE UNCHANGED entities
    /\ ret' = [op |-> "link_fact_to_entity", entity_name |-> p.entity_name,
               fact_id |-> p.fact_id, entity |-> p.row, err |-> FALSE]
    /\ UNCHANGED <<clock, facts, facts_fts, lessons>>

\* ---------------------------------------------------------------- stats
\* stats whose total is the active count alone
StatsResultActiveOnly ==
    LET active_facts == Cardinality({r \in Rowids : facts[r].superseded_by = NULL})
        superseded_facts ==
            Cardinality({r \in Rowids : facts[r].superseded_by # NULL})
    IN  [active_facts |-> active_facts, superseded_facts |-> superseded_facts,
         total_facts |-> active_facts,
         lessons |-> Len(lessons), entities |-> Len(entities)]

\* the four COUNT(*) queries of stats and the dict built from them
StatsResult ==
    LET active_facts == Cardinality({r \in Rowids : facts[r].superseded_by = NULL})
        superseded_facts ==
            Cardinality({r \in Rowids : facts[r].superseded_by # NULL})
    IN  [active_facts |-> active_facts, superseded_facts |-> superseded_facts,
         total_facts |-> active_facts + superseded_facts,
         lessons |-> Len(lessons), entities |-> Len(entities)]

\* stats()
Stats ==
    /\ Call
    /\ ret' = [op |-> "stats", err |-> FALSE, stats |-> StatsResult]
    /\ UNCHANGED <<clock, facts, facts_fts, lessons, entities, sup>>

\* ------------------------------------------------------- callers' inputs
\* ids a caller can name: stored ones and one that never existed
NoSuchId == <<"c1", <<0>>>>
KnownIds == FactIds \cup {NoSuchId}

\* argument tuples of remember (and the keyword arguments of supersede)
RememberArgs ==
    { [content |-> "c1", tags |-> {}, source |-> "conversation",
       confidence |-> 1, expires_in_days |-> {}],
      [content |-> "c2", tags |-> {<<"t1", "t2">>}, source |-> "observation",
       confidence |-> 0, expires_in_days |-> {MaxDays}],
      [content |-> "c1", tags |-> {<<"t1">>}, source |-> "conversation",
       confidence |-> 1, expires_in_days |-> {0}],
      [content |-> "c2", tags |-> {<<>>}, source |-> "conversation",
       confidence |-> 1, expires_in_days |-> {}] }

\* keyword arguments of supersede
SupersedeArgs == {a \in RememberArgs : a.expires_in_days = {}}

\* argument tuples of recall
RecallArgs ==
    { [query |-> {"c1"}, limit |-> MaxLimit, tags |-> {}, min_confidence |-> 0],
      [query |-> {"c2"}, limit |-> 1, tags |-> {<<"t1", "t2">>},
       min_confidence |-> 0],
      [query |-> {"c1", "t1"}, limit |-> -1, tags |-> {<<>>},
       min_confidence |-> 1],
      [query |-> {"c2"}, limit |-> 1, tags |-> {}, min_confidence |-> 1],
      [query |-> BadQuery, limit |-> MaxLimit, tags |-> {},
       min_confidence |-> 0] }

ListArgs ==
    { [tags |-> {}, limit |-> MaxLimit, include_superseded |-> FALSE],
      [tags |-> {<<"t1">>}, limit |-> 1, include_superseded |-> FALSE],
      [tags |-> {<<"t2", "t1">>}, limit |-> -1, include_superseded |-> FALSE],
      [tags |-> {}, limit |-> MaxCalls, include_superseded |-> TRUE] }

MinAccessCounts == {0, 1, 999}

NextFacts ==
    \/ \E a \in RememberArgs :
          Remember(a.content, a.tags, a.source, a.confidence, a.expires_in_days)
    \/ \E a \in RecallArgs :
          Recall(a.query, a.limit, a.tags, a.min_confidence)
    \/ \E id \in KnownIds : GetFact(id)
    \/ \E a \in ListArgs : ListFacts(a.tags, a.limit, a.include_superseded)
    \/ \E id \in KnownIds, a \in SupersedeArgs :
          Supersede(id, a.content, a.tags, a.source, a.confidence,
                    a.expires_in_days)
    \/ \E id \in KnownIds : Forget(id)
    \/ \E d \in 0..MaxDays, m \in MinAccessCounts : ForgetStale(d, m)
    \/ Tick

SpecFacts == Init /\ [][NextFacts]_vars

\* supersede seen by concurrent callers and by a crash
NextSupersede ==
    \/ \E a \in SupersedeArgs :
          Remember(a.content, a.tags, a.source, a.confidence, a.expires_in_days)
    \/ \E id \in KnownIds, a \in SupersedeArgs :
          SupersedeBegin(id, a.content, a.tags, a.source, a.confidence,
                         a.expires_in_days)
    \/ \E p \in sup : SupersedeFinish(p)
    \/ \E p \in sup : Crash(p)
    \/ \E id \in KnownIds : Forget(id)
    \/ Tick

SpecSupersede == Init /\ [][NextSupersede]_vars

LearnArgs ==
    { [action |-> "a1", context |-> <<"d", "e", "p">>, outcome |-> "negative",
       insight |-> "i1"],
      [action |-> "a2", context |-> <<"t", "e">>, outcome |-> "positive",
       insight |-> "i2"],
      [action |-> "a1", context |-> <<"d", "e", "p">>, outcome |-> "neutral",
       insight |-> "i1"],
      [action |-> "a2", context |-> <<"d", "e", "p">>, outcome |-> "bogus",
       insight |-> "i2"] }

NoSuchLesson == <<<<"a1", <<"d", "e", "p">>>>, <<0>>>>

\* argument tuples of get_lessons: no filter, a plain substring, an upper
\* case letter, a text holding LIKE's one-character wildcard, empty texts
GetLessonsArgs ==
    { [context |-> {}, outcome |-> {}, limit |-> MaxLimit],
      [context |-> {<<"e", "p">>}, outcome |-> {"negative"}, limit |-> -1],
      [context |-> {<<"E">>}, outcome |-> {}, limit |-> 1],
      [context |-> {<<"_", "e">>}, outcome |-> {}, limit |-> MaxLimit],
      [context |-> {<<>>}, outcome |-> {""}, limit |-> MaxLimit] }

NextLessons ==
    \/ \E a \in LearnArgs : Learn(a.action, a.context, a.outcome, a.insight)
    \/ \E id \in LessonIds \cup {NoSuchLesson} : ApplyLesson(id)
    \/ \E a \in GetLessonsArgs : GetLessons(a.context, a.outcome, a.limit)
    \/ Tick

SpecLessons == Init /\ [][NextLessons]_vars

\* argument tuples of track_entity, update_entity, link_fact_to_entity
TrackArgs ==
    { [name |-> "Alex", entity_type |-> "person",
       attributes |-> {[role |-> "boss"]}],
      [name |-> "Alex", entity_type |-> "person", attributes |-> {}],
      [name |-> "Alex", entity_type |-> "company",
       attributes |-> {[role |-> "lead", tz |-> "EST"]}],
      [name |-> "Acme", entity_type |-> "company",
       attributes |-> {EmptyDict}] }

UpdateArgs ==
    { [name |-> "Alex", entity_type |-> "person",
       attributes |-> [role |-> "lead", tz |-> "EST"]],
      [name |-> "Alex", entity_type |-> "company", attributes |-> [tz |-> "UTC"]],
      [name |-> "Acme", entity_type |-> "person",
       attributes |-> [role |-> "boss"]] }

LinkArgs ==
    { [entity_name |-> "Alex", fact_id |-> <<"c1", <<1>>>>],
      [entity_name |-> "Alex", fact_id |-> <<"c2", <<1>>>>],
      [entity_name |-> "Acme", fact_id |-> <<"c1", <<1>>>>] }

NextEntities ==
    \/ \E a \in TrackArgs : TrackEntity(a.name, a.entity_type, a.attributes)
    \/ \E a \in UpdateArgs : UpdateEntity(a.name, a.entity_type, a.attributes)
    \/ \E a \in LinkArgs : LinkFactToEntity(a.entity_name, a.fact_id)
    \/ Tick

SpecEntities == Init /\ [][NextEntities]_vars

\* several callers on the entities table, their statements interleaved
NextConcurrent ==
    \/ \E a \in TrackArgs : TrackEntitySelect(a.name, a.entity_type, a.attributes)
    \/ \E p \in sup : TrackEntityWrite(p)
    \/ \E a \in LinkArgs : LinkFactSelect(a.entity_name, a.fact_id)
    \/ \E p \in sup : LinkFactWrite(p)
    \/ Tick

SpecConcurrent == Init /\ [][NextConcurrent]_vars

\* every operation of the store, called in any order: the lesson
\* operations with all their inputs, the others with a few of theirs
NextAll ==
    \/ NextLessons
    \/ \E a \in SupersedeArgs :
          Remember(a.content, a.tags, a.source, a.confidence, a.expires_in_days)
    \/ \E a \in RecallArgs :
          a.limit = MaxLimit /\ Recall(a.query, a.limit, a.tags, a.min_confidence)
    \/ \E id \in FactIds : GetFact(id)
    \/ \E a \in ListArgs :
          a.include_superseded /\ ListFacts(a.tags, a.limit, a.include_superseded)
    \/ \E id \in FactIds, a \in SupersedeArgs :
          a.tags = {} /\ Supersede(id, a.content, a.tags, a.source,
                                   a.confidence, a.expires_in_days)
    \/ \E id \in FactIds : Forget(id)
    \/ ForgetStale(0, 999)
    \/ Stats
    \/ \E a \in TrackArgs :
          a.attributes = {} /\ TrackEntity(a.name, a.entity_type, a.attributes)
    \/ \E a \in UpdateArgs :
          a.entity_type = "person"
             /\ UpdateEntity(a.name, a.entity_type, a.attributes)
    \/ \E a \in LinkArgs :
          a.entity_name = "Alex" /\ LinkFactToEntity(a.entity_name, a.fact_id)

SpecAll == Init /\ [][NextAll]_vars

\* ================================================================ claims
\* the step just taken is a call of operation op (ret' describes it)
Called(op) == calls' # calls /\ ret'.op = op

\* the stored row of a fact id
RowOf(id) == facts[RowidOf(id)]

\* C1: in every reachable state the row identities held by facts_fts are
\* exactly the row identities of the facts table.
C1_IndexInSync == DOMAIN facts_fts = DOMAIN facts

\* C2: in every reachable state, also after forget or forget_stale removed
\* facts, a remember call completes without error and adds exactly one fact
\* row and one index entry under that row's identity, changing no existing
\* row or entry.  Stated for the calls whose generated id is new.
C2_RememberAddsOne ==
    [][Called("remember") /\ GenerateId(ret'.content, clock) \notin FactIds
       => /\ ~ret'.err
          /\ \E r \in (DOMAIN facts') \ Rowids :
                /\ DOMAIN facts' = Rowids \cup {r}
                /\ r \notin DOMAIN facts_fts
                /\ DOMAIN facts_fts' = (DOMAIN facts_fts) \cup {r}
          /\ \A r \in Rowids : facts'[r] = facts[r]
          /\ \A r \in DOMAIN facts_fts : facts_fts'[r] = facts_fts[r]]_vars

\* C3: recall returns no fact whose expires_at is non-null and not later
\* than the time of the query, and no fact with non-null superseded_by.
C3_RecallOnlyLive ==
    ret.op = "recall" =>
        \A f \in ret.facts :
            /\ f.expires_at # NULL => IsoParse(f.expires_at) > ret.now
            /\ f.superseded_by = NULL

\* a recall returned a fact while a fact matching its query was expired or
\* superseded
C3_Witness ==
    /\ ret.op = "recall"
    /\ ret.facts # {}
    /\ \E r \in Rowids \cap DOMAIN facts_fts :
          /\ Match(ret.query, facts_fts[r])
          /\ \/ facts[r].superseded_by # NULL
             \/ /\ facts[r].expires_at # NULL
                /\ IsoParse(facts[r].expires_at) <= ret.now

\* C4: after new_id = supersede(old, new_content) returns for an existing
\* fact old, get_fact(old).superseded_by = new_id, get_fact(new_id).content
\* = new_content, the new fact has superseded_by null and old is still
\* stored.
C4_SupersedeLinks ==
    ret.op = "supersede" /\ ~ret.err /\ ret.existed =>
        /\ GetFactResult(ret.old_fact_id) # {}
        /\ \A f \in GetFactResult(ret.old_fact_id) : f.superseded_by = ret.id
        /\ GetFactResult(ret.id) # {}
        /\ \A f \in GetFactResult(ret.id) :
              f.content = ret.new_content /\ f.superseded_by = NULL

C4_Witness ==
    /\ ret.op = "supersede" /\ ~ret.err /\ ret.existed
    /\ Cardinality(Rowids) >= 2

\* C5 as claimed: in no state observable by another caller does the new
\* fact created by a supersede call exist while the old fact's
\* superseded_by is still null.
C5_SupersedeAtomic ==
    \A p \in sup :
        ~(/\ p.new \in FactIds
          /\ p.old \in FactIds
          /\ RowOf(p.old).superseded_by = NULL)

\* C5 amended: supersede commits the new fact and the mark of the old fact
\* separately, so the new fact is observable with the old one unmarked
\* between the two commits; when supersede has returned, the old fact, if
\* it is still stored, has superseded_by = new_id.
C5_MarkedOnReturn ==
    ret.op = "supersede" =>
        \A r \in Rowids :
            facts[r].id = ret.old_fact_id => facts[r].superseded_by = ret.id

\* a supersede call on a stored fact has done both commits
C5_Witness ==
    /\ ret.op = "supersede"
    /\ ret.old_fact_id \in FactIds
    /\ ret.id \in FactIds
    /\ RowOf(ret.old_fact_id).superseded_by = ret.id

\* C6: learn with an outcome outside positive, negative, neutral is
\* rejected before any write, so every stored lesson has one of the three
\* outcomes.
Outcomes == {"positive", "negative", "neutral"}

C6_OutcomeEnum ==
    /\ \A i \in 1..Len(lessons) : lessons[i].outcome \in Outcomes
    /\ ret.op = "learn" /\ ret.outcome \notin Outcomes => ret.err

\* C7: forget_stale(days, min_access_count) deletes exactly the facts whose
\* last_accessed is earlier than now - days, whose access_count is at most
\* min_access_count and whose superseded_by is null; every other fact stays
\* unchanged and the returned count is the number of facts deleted.
C7_ForgetStaleExact ==
    [][Called("forget_stale") =>
        LET gone == {r \in Rowids :
                       /\ IsoParse(facts[r].last_accessed)
                             < ret'.now - TimeDelta(ret'.days)
                       /\ facts[r].access_count <= ret'.min_access_count
                       /\ facts[r].superseded_by = NULL}
        IN  /\ DOMAIN facts' = Rowids \ gone
            /\ \A r \in Rowids \ gone : facts'[r] = facts[r]
            /\ ret'.deleted = Cardinality(gone)]_vars

\* a sweep deleted a fact and left a superseded fact that is as old and as
\* little used as the sweep asks for
C7_Witness ==
    /\ ret.op = "forget_stale"
    /\ ret.deleted > 0
    /\ \E r \in Rowids :
          /\ facts[r].superseded_by # NULL
          /\ IsoParse(facts[r].last_accessed) < ret.now - TimeDelta(ret.days)
          /\ facts[r].access_count <= ret.min_access_count

\* C8: after any sequence of track_entity, update_entity and
\* link_fact_to_entity calls at most one entity exists per (name,
\* entity_type); a repeated track_entity returns the id of the first call
\* (ids of stored entities never change) and leaves the attributes equal
\* to those of the latest call.
KeyRows(es, name, entity_type) ==
    {i \in 1..Len(es) : es[i].name = name /\ es[i].entity_type = entity_type}

C8_OneEntityPerKey ==
    [][/\ \A i, j \in 1..Len(entities') :
             /\ entities'[i].name = entities'[j].name
             /\ entities'[i].entity_type = entities'[j].entity_type
             => i = j
       /\ \A i \in 1..Len(entities) :
             /\ i <= Len(entities')
             /\ entities'[i].id = entities[i].id
             /\ entities'[i].name = entities[i].name
             /\ entities'[i].entity_type = entities[i].entity_type
       /\ Called("track_entity") =>
             LET was == KeyRows(entities, ret'.name, ret'.entity_type)
                 now == KeyRows(entities', ret'.name, ret'.entity_type)
             IN  /\ ~ret'.err
                 /\ Cardinality(now) = 1
                 /\ \A j \in now :
                       /\ entities'[j].id = ret'.id
                       /\ JsonLoads(entities'[j].attributes) =
                            (IF ret'.attributes = {} THEN EmptyDict
                             ELSE Some(ret'.attributes))
                 /\ \A i \in was : ret'.id = entities[i].id
                 /\ was # {} => Len(entities') = Len(entities)]_vars

\* track_entity was called again for a pair tracked earlier, with other
\* attributes than the entity was first given
C8_Witness ==
    /\ ret.op = "track_entity"
    /\ ret.attributes = {}
    /\ \E i \in 1..Len(entities) :
          /\ entities[i].id = ret.id
          /\ entities[i].first_seen # entities[i].last_updated
          /\ JsonLoads(entities[i].attributes) = EmptyDict

\* C9: immediately after id = remember(content, tags, source, confidence),
\* get_fact(id) returns a fact with that id, identical content, tags,
\* source and confidence, access_count 1 and superseded_by null.
C9_RememberThenGet ==
    ret.op = "remember" /\ ~ret.err =>
        /\ GetFactResult(ret.id) # {}
        /\ \A f \in GetFactResult(ret.id) :
              /\ f.id = ret.id
              /\ f.content = ret.content
              /\ f.tags = (IF ret.tags = {} THEN <<>> ELSE Some(ret.tags))
              /\ f.source = ret.source
              /\ f.confidence = ret.confidence
              /\ f.access_count = 1
              /\ f.superseded_by = NULL

C9_Witness ==
    /\ ret.op = "remember" /\ ~ret.err
    /\ ret.tags = {<<"t1", "t2">>}
    /\ ret.source = "observation"
    /\ Cardinality(Rowids) >= 2

\* C10: remember stores expires_at = now + expires_in_days for every
\* provided expires_in_days, 0 included, and null only when it is not
\* provided.
C10_ExpiresAt ==
    ret.op = "remember" /\ ~ret.err =>
        LET e == RowOf(ret.id).expires_at
        IN  IF ret.expires_in_days = {} THEN e = NULL
            ELSE /\ e # NULL
                 /\ IsoParse(e) = ret.now + TimeDelta(Some(ret.expires_in_days))

\* C11: a recall adds exactly 1 to access_count and stores the call's
\* time in last_accessed for the facts it returns, and only for them: a
\* fact it does not return (no match, filtered out, or cut off by the
\* limit) keeps both fields, no fact is added or removed, no other field
\* of any fact changes and the index is left alone.
C11_RecallTouchesReturned ==
    [][Called("recall") =>
        LET returned == {f.id : f \in ret'.facts}
        IN  /\ DOMAIN facts' = DOMAIN facts
            /\ facts_fts' = facts_fts
            /\ returned \subseteq FactIds
            /\ \A r \in Rowids :
                 IF facts[r].id \in returned
                 THEN /\ facts'[r].access_count = facts[r].access_count + 1
                      /\ IsoParse(facts'[r].last_accessed) = ret'.now
                      /\ facts'[r] = [facts[r] EXCEPT
                             !.access_count = facts'[r].access_count,
                             !.last_accessed = facts'[r].last_accessed]
                 ELSE facts'[r] = facts[r]]_vars

\* a recall has returned one fact while another fact whose index entry
\* matches the query was left out
C11_Witness ==
    /\ ret.op = "recall"
    /\ ~ret.err
    /\ ret.facts # {}
    /\ \E r \in Rowids :
         /\ r \in DOMAIN facts_fts
         /\ Match(ret.query, facts_fts[r])
         /\ facts[r].id \notin {f.id : f \in ret.facts}
         /\ facts[r].access_count = 1

\* C12: update_entity(name, type, B) on an existing entity whose
\* attributes are A leaves it with the keys of A and B together, each key
\* of B holding B's value and every other key holding A's value; its id,
\* first_seen and fact_ids are unchanged, no other entity changes, and the
\* entity handed back is the stored one.
C12_UpdateMerges ==
    [][Called("update_entity") =>
        \A i \in KeyRows(entities, ret'.name, ret'.entity_type) :
            LET A   == JsonLoads(entities[i].attributes)
                B   == ret'.attributes
                new == JsonLoads(entities'[i].attributes)
            IN  /\ Len(entities') = Len(entities)
                /\ DOMAIN new = (DOMAIN A) \cup (DOMAIN B)
                /\ \A k \in DOMAIN B : new[k] = B[k]
                /\ \A k \in (DOMAIN A) \ (DOMAIN B) : new[k] = A[k]
                /\ entities'[i].id = entities[i].id
                /\ entities'[i].first_seen = entities[i].first_seen
                /\ entities'[i].fact_ids = entities[i].fact_ids
                /\ \A j \in 1..Len(entities) : j # i => entities'[j] = entities[j]
                /\ ret'.entity = {EntityOf(entities'[i])}]_vars

\* update_entity has returned an entity that has a linked fact, a key it
\* kept from before and a key whose value the call replaced
C12_Witness ==
    /\ ret.op = "update_entity"
    /\ \E e \in ret.entity :
         /\ e.fact_ids # <<>>
         /\ (DOMAIN e.attributes) \ (DOMAIN ret.attributes) # {}
         /\ e.attributes.tz = "UTC"

\* C13: update_entity on a (name, type) pair that has no entity returns
\* nothing, raises no error, and leaves the entities table as it was: no
\* row created, no row changed.
C13_UpdateMissing ==
    [][Called("update_entity")
         /\ KeyRows(entities, ret'.name, ret'.entity_type) = {}
       => /\ ret'.entity = {}
          /\ ~ret'.err
          /\ entities' = entities]_vars

\* update_entity has returned nothing for a pair that has no entity while
\* an entity of the same name and another type is stored
C13_Witness ==
    /\ ret.op = "update_entity"
    /\ ret.entity = {}
    /\ KeyRows(entities, ret.name, ret.entity_type) = {}
    /\ \E i \in 1..Len(entities) : entities[i].name = ret.name

\* a sequence without a repeated element
NoDuplicates(s) == \A i, j \in 1..Len(s) : s[i] = s[j] => i = j

\* C14: with link_fact_to_entity calls issued one at a time, no entity's
\* fact_ids ever holds the same id twice; a call naming an id already in
\* the list leaves fact_ids as it was, a call naming a new id appends it
\* at the end, and a call naming an entity that does not exist changes
\* nothing.
C14_LinkNoDuplicates ==
    [][/\ \A i \in 1..Len(entities') :
             NoDuplicates(JsonLoads(entities'[i].fact_ids))
       /\ Called("link_fact_to_entity") =>
             LET named == {i \in 1..Len(entities) :
                             entities[i].name = ret'.entity_name}
             IN  /\ ~ret'.err
                 /\ Len(entities') = Len(entities)
                 /\ named = {} => entities' = entities
                 /\ \E S \in SUBSET named :
                      /\ named # {} => Cardinality(S) = 1
                      /\ \A i \in 1..Len(entities) :
                           LET old == JsonLoads(entities[i].fact_ids)
                           IN  IF i \in S /\ \A n \in 1..Len(old) :
                                                old[n] # ret'.fact_id
                               THEN entities'[i] = [entities[i] EXCEPT
                                      !.fact_ids =
                                         JsonDumps(old \o <<ret'.fact_id>>)]
                               ELSE entities'[i] = entities[i]]_vars

\* a link call has just appended a second, different fact id to an entity
C14_Witness ==
    /\ ret.op = "link_fact_to_entity"
    /\ \E i \in 1..Len(entities) :
         LET ids == JsonLoads(entities[i].fact_ids)
         IN  /\ entities[i].name = ret.entity_name
             /\ Len(ids) = 2
             /\ ids[2] = ret.fact_id

\* C15: forget(id) raises no error whether or not the id is stored; after
\* it no stored fact has that id, so get_fact(id) is absent; every other
\* fact is still stored and unchanged and none is added; forgetting an id
\* that is already gone (a second forget) leaves the whole store as it is.
C15_ForgetRemovesOne ==
    [][Called("forget") =>
        /\ ~ret'.err
        /\ \A r \in DOMAIN facts' : facts'[r].id # ret'.fact_id
        /\ DOMAIN facts' \subseteq DOMAIN facts
        /\ \A r \in DOMAIN facts :
             facts[r].id # ret'.fact_id
                => r \in DOMAIN facts' /\ facts'[r] = facts[r]
        /\ ret'.fact_id \notin FactIds
             => <<facts', facts_fts', lessons', entities'>>
                  = <<facts, facts_fts, lessons, entities>>]_vars

\* forget has just removed a stored fact (its index entry is still there)
\* while another fact stays stored
C15_Witness ==
    /\ ret.op = "forget"
    /\ GetFactResult(ret.fact_id) = {}
    /\ facts # <<>>
    /\ \E r \in (DOMAIN facts_fts) \ (DOMAIN facts) :
         facts_fts[r].content = ret.fact_id[1]

\* the stored facts that list_facts(tags) is to choose from: not
\* superseded and carrying at least one of the tags
TaggedLive(tags) ==
    {r \in Rowids : /\ facts[r].superseded_by = NULL
                    /\ \E t \in SeqRange(tags) :
                         t \in SeqRange(JsonLoads(facts[r].tags))}

\* C16: list_facts(tags=T, limit=n), T not empty and n not negative,
\* returns non-superseded facts carrying a tag of T, each once, newest
\* created_at first, and as many of them as there are up to n: with at
\* least n such facts stored it returns n of them, none older than one it
\* left out, and otherwise all of them.
C16_ListFactsTopN ==
    [][Called("list_facts") /\ ret'.tags # {} /\ ~ret'.include_superseded
         /\ ret'.limit >= 0
       => LET T   == Some(ret'.tags)
              M   == TaggedLive(T)
              out == ret'.facts
              ids == {out[i].id : i \in 1..Len(out)}
          IN  T # <<>> =>
              /\ ids \subseteq {facts[r].id : r \in M}
              /\ \A i, j \in 1..Len(out) : out[i].id = out[j].id => i = j
              /\ \A i, j \in 1..Len(out) :
                   i < j => ~TextLess(out[i].created_at, out[j].created_at)
              /\ Len(out) = (IF Cardinality(M) >= ret'.limit
                             THEN ret'.limit ELSE Cardinality(M))
              /\ \A r \in M : facts[r].id \notin ids =>
                   \A i \in 1..Len(out) :
                      ~TextLess(out[i].created_at, facts[r].created_at)]_vars

\* C17: list_facts with include_superseded false returns no superseded
\* fact; with include_superseded true, no tags and a limit not below the
\* number of stored facts it returns every stored fact, each once.
C17_ListSuperseded ==
    [][Called("list_facts") =>
        LET out == ret'.facts
        IN  /\ ~ret'.include_superseded =>
                \A i \in 1..Len(out) : out[i].superseded_by = NULL
            /\ ret'.include_superseded /\ ret'.tags = {}
                 /\ ret'.limit >= Cardinality(Rowids)
               => /\ {out[i] : i \in 1..Len(out)}
                       = {FactOf(facts[r]) : r \in Rowids}
                  /\ Len(out) = Cardinality(Rowids)]_vars

\* list_facts with include_superseded true has returned a superseded fact
\* together with the fact that replaced it
C17_Witness ==
    /\ ret.op = "list_facts"
    /\ ret.include_superseded
    /\ \E i, j \in 1..Len(ret.facts) :
         /\ ret.facts[i].superseded_by = ret.facts[j].id
         /\ ret.facts[j].superseded_by = NULL

\* C18: a remember call that fails, at the insert of the row or at the
\* insert of the index entry, persists nothing: the facts table and the
\* index are what they were before the call.
C18_FailedRememberPersistsNothing ==
    [][Called("remember") /\ ret'.err
         => facts' = facts /\ facts_fts' = facts_fts]_vars

\* a remember call has failed at the insert of its index entry: its id is
\* not stored, the row identity it was given is taken in the index
C18_Witness ==
    /\ ret.op = "remember"
    /\ ret.err
    /\ GenerateId(ret.content, ret.now) \notin FactIds
    /\ NewRowid \in DOMAIN facts_fts

\* text holds the characters of part in a row, letters compared without
\* regard to case
Contains(text, part) ==
    \E k \in 0..(Len(text) - Len(part)) :
        \A n \in 1..Len(part) : Lower(text[k + n]) = Lower(part[n])

\* an optional argument is given: it is there and is not the empty text
Given(o, empty) == o # {} /\ Some(o) # empty

\* C19: get_lessons(context, outcome, limit) returns exactly the lessons
\* whose context contains the given context as a substring (when one is
\* given; an empty text counts as not given) and whose outcome equals the
\* given outcome (when one is given), each once, newest created_at first,
\* cut to the first limit of them (limit not negative); it changes no
\* lesson.
C19_GetLessonsExact ==
    [][Called("get_lessons") /\ ret'.limit >= 0 =>
        LET M   == {i \in 1..Len(lessons) :
                      /\ Given(ret'.context, <<>>)
                            => Contains(lessons[i].context, Some(ret'.context))
                      /\ Given(ret'.outcome, "")
                            => lessons[i].outcome = Some(ret'.outcome)}
            out == ret'.lessons
        IN  /\ lessons' = lessons
            /\ {out[i] : i \in 1..Len(out)} \subseteq {lessons[i] : i \in M}
            /\ \A i, j \in 1..Len(out) : out[i] = out[j] => i = j
            /\ \A i, j \in 1..Len(out) :
                 i < j => ~TextLess(out[i].created_at, out[j].created_at)
            /\ Len(out) = (IF Cardinality(M) >= ret'.limit
                           THEN ret'.limit ELSE Cardinality(M))
            /\ \A m \in M : (\A i \in 1..Len(out) : out[i] # lessons[m]) =>
                 \A i \in 1..Len(out) :
                    ~TextLess(out[i].created_at, lessons[m].created_at)]_vars

\* C20: apply_lesson(id) raises no error; on a stored lesson it adds
\* exactly 1 to that lesson's applied_count and changes nothing else: no
\* other field of it, no other lesson, no fact, no index entry, no entity;
\* on an id that is not stored it changes nothing. No operation removes a
\* lesson or lowers an applied_count: every step keeps each stored lesson
\* in place, with its fields, and with an applied_count not below the one
\* it had.
C20_ApplyLessonCounts ==
    [][/\ Called("apply_lesson") =>
            /\ ~ret'.err
            /\ Len(lessons') = Len(lessons)
            /\ \A i \in 1..Len(lessons) :
                 IF lessons[i].id = ret'.lesson_id
                 THEN /\ lessons'[i].applied_count
                            = lessons[i].applied_count + 1
                      /\ lessons'[i] = [lessons[i] EXCEPT !.applied_count =
                                            lessons'[i].applied_count]
                 ELSE lessons'[i] = lessons[i]
            /\ <<facts', facts_fts', entities'>> = <<facts, facts_fts, entities>>
       /\ Len(lessons') >= Len(lessons)
       /\ \A i \in 1..Len(lessons) :
            /\ lessons'[i].applied_count >= lessons[i].applied_count
            /\ lessons'[i] = [lessons[i] EXCEPT !.applied_count =
                                  lessons'[i].applied_count]]_vars

\* apply_lesson has just counted one of two stored lessons, the other one
\* never having been applied
C20_Witness ==
    /\ ret.op = "apply_lesson"
    /\ \E i, j \in 1..Len(lessons) :
         /\ lessons[i].id = ret.lesson_id
         /\ lessons[i].applied_count = 1
         /\ lessons[j].id # ret.lesson_id
         /\ lessons[j].applied_count = 0

\* C21: stats changes no stored row, and what it reports is the state of
\* the store: active_facts is the number of facts whose superseded_by is
\* null, superseded_facts the number of those whose superseded_by is not
\* null, total_facts their sum and the number of fact rows, lessons the
\* number of lesson rows, entities the number of entity rows.
C21_StatsCounts ==
    [][Called("stats") =>
        LET st == ret'.stats
        IN  /\ <<facts', facts_fts', lessons', entities'>>
                 = <<facts, facts_fts, lessons, entities>>
            /\ st.active_facts
                 = Cardinality({id \in FactIds : RowOf(id).superseded_by = NULL})
            /\ st.superseded_facts
                 = Cardinality({id \in FactIds : RowOf(id).superseded_by # NULL})
            /\ st.total_facts = st.active_facts + st.superseded_facts
            /\ st.total_facts = Cardinality(DOMAIN facts)
            /\ st.lessons = Cardinality(LessonIds)
            /\ st.entities = Cardinality(EntityIds)]_vars

\* stats has reported a store holding an active fact, a superseded fact
\* and nothing else
C21_Witness ==
    /\ ret.op = "stats"
    /\ ret.stats.active_facts = 1
    /\ ret.stats.superseded_facts = 1
    /\ ret.stats.total_facts = 2

\* C22 as stated: forget_stale(days=0, min_access_count=m) deletes every
\* non-superseded fact whose access_count is at most m, whatever its
\* last_accessed, a fact remembered or recalled at the clock instant of
\* the sweep included.
C22_SweepZeroDaysAll ==
    [][Called("forget_stale") /\ ret'.days = 0 =>
        \A r \in Rowids :
            /\ facts[r].superseded_by = NULL
            /\ facts[r].access_count <= ret'.min_access_count
            => r \notin DOMAIN facts']_vars

\* C22: forget_stale(days=0, min_access_count=m) deletes every
\* non-superseded fact whose access_count is at most m and whose
\* last_accessed is earlier than the clock reading of the sweep; a fact
\* remembered or recalled at that very reading, or after it, is kept
\* unchanged.
C22_SweepZeroDaysEarlier ==
    [][Called("forget_stale") /\ ret'.days = 0 =>
        \A id \in FactIds :
            LET f == RowOf(id)
            IN  IF IsoParse(f.last_accessed) >= ret'.now
                THEN /\ RowidOf(id) \in DOMAIN facts'
                     /\ facts'[RowidOf(id)] = f
                ELSE f.superseded_by = NULL
                        /\ f.access_count <= ret'.min_access_count
                     => \A r \in DOMAIN facts' : facts'[r].id # id]_vars

\* a sweep with days=0 has deleted a fact and kept a fact that was last
\* accessed at the sweep's own clock reading and is as little used as the
\* sweep asks for
C22_Witness ==
    /\ ret.op = "forget_stale"
    /\ ret.days = 0
    /\ ret.deleted > 0
    /\ \E r \in Rowids :
         /\ IsoParse(facts[r].last_accessed) = ret.now
         /\ facts[r].access_count <= ret.min_access_count
         /\ facts[r].superseded_by = NULL

\* the stored facts a, b, c form a chain: a superseded by b, b by c, c by
\* nothing
Chain(a, b, c) ==
    /\ RowOf(a).superseded_by = b
    /\ RowOf(b).superseded_by = c
    /\ RowOf(c).superseded_by = NULL

\* of a chain a, b, c: a and b are retrievable by get_fact as stored, and
\* neither is among the rows a recall or a list_facts without superseded
\* facts selects from
ChainRetrieval ==
    \A a, b, c \in FactIds : Chain(a, b, c) =>
        /\ GetFactResult(a) = {FactOf(RowOf(a))}
        /\ GetFactResult(b) = {FactOf(RowOf(b))}
        /\ \A x \in {a, b} :
             /\ RowidOf(x) \notin ListRows(FALSE)
             /\ \A q \in RecallArgs :
                  RowidOf(x) \notin RecallRows(q.query, q.min_confidence, clock)
             /\ ret.op = "recall" => \A f \in ret.facts : f.id # x
             /\ ret.op = "list_facts" /\ ~ret.include_superseded =>
                  \A i \in 1..Len(ret.facts) : ret.facts[i].id # x

\* C23: supersession is kept hop by hop. A supersede of b by c changes the
\* superseded_by of b and of no other fact, so a fact a superseded by b
\* still points at b and c points at nothing; in every state, of a chain
\* a, b, c the facts a and b are retrievable by get_fact and only c can be
\* returned by recall or by list_facts with include_superseded false.
C23_ChainHopByHop ==
    [][/\ Called("supersede") /\ ~ret'.err =>
            /\ \A r \in Rowids :
                 facts'[r] = IF facts[r].id = ret'.old_fact_id
                             THEN [facts[r] EXCEPT !.superseded_by = ret'.id]
                             ELSE facts[r]
            /\ \A r \in DOMAIN facts' \ Rowids :
                 facts'[r].id = ret'.id /\ facts'[r].superseded_by = NULL
       /\ ChainRetrieval'
       /\ ChainRetrieval]_vars

\* the second supersede of a chain has returned: a is superseded by b, b
\* by the fact just created, which is superseded by nothing
C23_Witness ==
    /\ ret.op = "supersede"
    /\ ~ret.err
    /\ \E a \in FactIds :
         /\ ret.old_fact_id \in FactIds
         /\ ret.id \in FactIds
         /\ Chain(a, ret.old_fact_id, ret.id)
         /\ Cardinality({a, ret.old_fact_id, ret.id}) = 3

\* C24: in every step, a fact that stays stored keeps its content, tags,
\* source, confidence, created_at and expires_at; its last_accessed and
\* access_count change only in a recall that returns it; its
\* superseded_by changes only in a supersede naming it as the old fact;
\* and a fact leaves the store only in a forget of its id or in a
\* forget_stale.
C24_FactLifecycle ==
    [][\A r \in Rowids :
         IF r \in DOMAIN facts' /\ facts'[r].id = facts[r].id
         THEN /\ facts'[r] = [facts[r] EXCEPT
                    !.last_accessed = facts'[r].last_accessed,
                    !.access_count = facts'[r].access_count,
                    !.superseded_by = facts'[r].superseded_by]
              /\ \/ /\ facts'[r].last_accessed = facts[r].last_accessed
                    /\ facts'[r].access_count = facts[r].access_count
                 \/ /\ Called("recall")
                    /\ \E f \in ret'.facts : f.id = facts[r].id
              /\ \/ facts'[r].superseded_by = facts[r].superseded_by
                 \/ /\ Called("supersede")
                    /\ ret'.old_fact_id = facts[r].id
         ELSE \/ Called("forget") /\ ret'.fact_id = facts[r].id
              \/ Called("forget_stale")]_vars

\* a stored fact has been returned by a recall and then superseded: its
\* access fields and its superseded_by differ from those it was created
\* with
C24_Witness ==
    /\ ret.op = "supersede"
    /\ \E r \in Rowids :
         /\ facts[r].id = ret.old_fact_id
         /\ facts[r].access_count = 2
         /\ facts[r].superseded_by = ret.id
         /\ ret.id # NULL

\* C25: track_entity on a pair that has an entity changes that entity's
\* attributes and last_updated and nothing else: its id, name, type,
\* first_seen and fact_ids stay, no other entity changes and none is
\* added; on a pair that has none it adds one entity, whose first_seen
\* equals its last_updated and whose fact_ids is empty, and changes no
\* other.
C25_TrackEntityFrame ==
    [][Called("track_entity") /\ ~ret'.err =>
        LET was == KeyRows(entities, ret'.name, ret'.entity_type)
        IN  IF was # {}
            THEN /\ Len(entities') = Len(entities)
                 /\ \A i \in 1..Len(entities) :
                      IF i \in was
                      THEN entities'[i] = [entities[i] EXCEPT
                              !.attributes = entities'[i].attributes,
                              !.last_updated = entities'[i].last_updated]
                      ELSE entities'[i] = entities[i]
            ELSE /\ Len(entities') = Len(entities) + 1
                 /\ SubSeq(entities', 1, Len(entities)) = entities
                 /\ LET e == entities'[Len(entities')]
                    IN  /\ e.name = ret'.name
                        /\ e.entity_type = ret'.entity_type
                        /\ e.id = ret'.id
                        /\ e.first_seen = e.last_updated
                        /\ JsonLoads(e.fact_ids) = <<>>]_vars

\* track_entity has just updated an entity that has a linked fact and was
\* first seen at an earlier time
C25_Witness ==
    /\ ret.op = "track_entity"
    /\ \E i \in 1..Len(entities) :
         /\ entities[i].id = ret.id
         /\ JsonLoads(entities[i].fact_ids) # <<>>
         /\ TextLess(entities[i].first_seen, entities[i].last_updated)

\* C26: with track_entity calls of several callers interleaved statement
\* by statement, once every call has completed the entities table holds
\* at most one row per (name, entity_type).
C26_ConcurrentTrackOneRow ==
    sup = {} =>
        \A i, j \in 1..Len(entities) :
            /\ entities[i].name = entities[j].name
            /\ entities[i].entity_type = entities[j].entity_type
            => i = j

\* C30: with link_fact_to_entity calls of several callers interleaved
\* statement by statement, a call that completes on an existing entity
\* leaves its fact id in that entity's fact_ids and removes no fact id
\* linked before, so two concurrent calls with different fact ids leave
\* both linked.
C30_ConcurrentLinksKept ==
    [][Called("link_fact_to_entity") /\ ret'.entity # NULL =>
        \A i \in 1..Len(entities) :
            /\ SeqRange(JsonLoads(entities[i].fact_ids))
                  \subseteq SeqRange(JsonLoads(entities'[i].fact_ids))
            /\ entities[i].id = ret'.entity
                  => ret'.fact_id \in SeqRange(JsonLoads(entities'[i].fact_ids))]_vars

\* C27: in every state reached by remember, supersede, forget and
\* forget_stale calls, a superseded_by that is not null is the id of a
\* stored fact.
C27_NoDanglingSupersededBy ==
    \A r \in Rowids :
        facts[r].superseded_by # NULL => facts[r].superseded_by \in FactIds

\* C28: supersede(old_id, new_content) with an old_id that names no stored
\* fact creates no fact, leaves the facts table and the index unchanged
\* and returns nothing.
C28_SupersedeMissing ==
    [][Called("supersede") /\ ~ret'.existed =>
        /\ facts' = facts
        /\ facts_fts' = facts_fts
        /\ ret'.id = NULL]_vars

\* C29: a fact's access_count is at least 1 and never decreases while the
\* fact is stored; a recall leaves every fact it returns with an
\* access_count of at least 2; and forget_stale with min_access_count = 1
\* deletes no fact whose access_count is 2 or more, however long ago its
\* last access was. So a fact once returned by a recall is never deleted
\* by such a sweep.
C29_RecalledSurvivesSweep ==
    [][/\ \A r \in DOMAIN facts' : facts'[r].access_count >= 1
       /\ \A r \in Rowids :
            r \in DOMAIN facts' /\ facts'[r].id = facts[r].id
               => facts'[r].access_count >= facts[r].access_count
       /\ Called("recall") =>
            \A f \in ret'.facts : \E r \in DOMAIN facts' :
                facts'[r].id = f.id /\ facts'[r].access_count >= 2
       /\ Called("forget_stale") /\ ret'.min_access_count = 1 =>
            \A r \in Rowids :
                facts[r].access_count >= 2
                   => r \in DOMAIN facts' /\ facts'[r] = facts[r]]_vars

\* a sweep with min_access_count = 1 has kept a fact that a recall had
\* returned and whose last access is older than the sweep's cutoff
C29_Witness ==
    /\ ret.op = "forget_stale"
    /\ ret.min_access_count = 1
    /\ \E r \in Rowids :
         /\ facts[r].access_count >= 2
         /\ facts[r].superseded_by = NULL
         /\ IsoParse(facts[r].last_accessed) < ret.now - TimeDelta(ret.days)

====
